---- MODULE Spec2Model ----
(***************************************************************************)
(* A model of the AudioServer request handlers (src/audioserver.py):       *)
(* Create.post, Delete.get, Update.post and Get.get running against one    *)
(* shared MongoDB collection.                                              *)
(*                                                                         *)
(* Strings are sequences of one-character strings so that str.lower() and  *)
(* str.capitalize() are computed character by character.  A JSON value is  *)
(* a record [k, s, m]: its kind, its text when it is a string and its      *)
(* mapping when it is an object.  A document is a function from field      *)
(* names to values.  Every store call is one atomic step; the handlers     *)
(* with a single store call are one action each, Update.post is two        *)
(* (find_one, then find_one_and_replace).                                  *)
(***************************************************************************)
EXTENDS Integers, Sequences, FiniteSets, TLC

VARIABLES store, pc, req, loc, resp, hist

vars == <<store, pc, req, loc, resp, hist>>

(***************************************************************************)
(* Bounds                                                                  *)
(***************************************************************************)
\* identifiers range over 0..MaxId (the route's <int:audioID> accepts 0)
MaxId == 1

Ids == 0..MaxId

\* the absent identifier (Get's audioID = None, a response without document)
NoId == -1

Workers == {"w1", "w2"}

\* the workers that serve requests one at a time in Spec
SeqWorkers == {"w1"}

(***************************************************************************)
(* Strings, str.lower() and str.capitalize()                               *)
(***************************************************************************)
LowerChars == <<"a", "b", "c", "d", "e", "g", "i", "k", "n", "o", "p", "s", "t", "u", "v">>

UpperChars == <<"A", "B", "C", "D", "E", "G", "I", "K", "N", "O", "P", "S", "T", "U", "V">>

LowerCh(c) ==
    IF \E i \in 1..Len(UpperChars) : UpperChars[i] = c
    THEN LowerChars[CHOOSE i \in 1..Len(UpperChars) : UpperChars[i] = c]
    ELSE c

UpperCh(c) ==
    IF \E i \in 1..Len(LowerChars) : LowerChars[i] = c
    THEN UpperChars[CHOOSE i \in 1..Len(LowerChars) : LowerChars[i] = c]
    ELSE c

\* str.lower()
Lower(s) == [i \in 1..Len(s) |-> LowerCh(s[i])]

\* str.capitalize(): first character upper-cased, the rest lower-cased
Capitalize(s) == [i \in 1..Len(s) |-> IF i = 1 THEN UpperCh(s[i]) ELSE LowerCh(s[i])]

song == <<"s", "o", "n", "g">>

podcast == <<"p", "o", "d", "c", "a", "s", "t">>

audiobook == <<"a", "u", "d", "i", "o", "b", "o", "o", "k">>

\* the list ['song','podcast','audiobook'] of the path-type checks
SupportedList == {song, podcast, audiobook}

\* the tokens a client sends as a type
Tokens ==
    { song,
      <<"S", "O", "N", "G">>,
      <<"P", "o", "d", "c", "a", "s", "t">>,
      <<"a", "u", "d", "i", "o", "B", "O", "O", "K">>,
      <<"v", "i", "d", "e", "o">> }

(***************************************************************************)
(* JSON values and request bodies                                          *)
(***************************************************************************)
NoMap == <<>>

JStr(s) == [k |-> "str", s |-> s, m |-> NoMap]

JNum == [k |-> "num", s |-> <<>>, m |-> NoMap]

JMap(m) == [k |-> "map", s |-> <<>>, m |-> m]

\* the attribute mappings a client sends as audioFileMetadata
Attributes == { [name |-> 1], [name |-> 2, host |-> 1] }

TypeValues == {JStr(t) : t \in Tokens} \cup {JNum}

MetaValues == {JMap(a) : a \in Attributes} \cup {JNum}

\* a JSON object with any subset of the two keys, or a JSON value that is no object
Bodies ==
    { [obj |-> TRUE, has |-> {"audioFileType", "audioFileMetadata"}, type |-> t, meta |-> m] :
          t \in TypeValues, m \in MetaValues }
    \cup { [obj |-> TRUE, has |-> {"audioFileType"}, type |-> t, meta |-> JNum] : t \in TypeValues }
    \cup { [obj |-> TRUE, has |-> {"audioFileMetadata"}, type |-> JNum, meta |-> m] : m \in MetaValues }
    \cup { [obj |-> TRUE, has |-> {}, type |-> JNum, meta |-> JNum],
           [obj |-> FALSE, has |-> {}, type |-> JNum, meta |-> JNum] }


(***************************************************************************)
(* Documents and the collection (pymongo calls of lines 85, 105, 150, 183, *)
(* 211 and 215)                                                            *)
(***************************************************************************)
\* None
Null == [null |-> TRUE]

\* dict item assignment d[k] = v
Put(d, k, v) == [x \in DOMAIN d \cup {k} |-> IF x = k THEN v ELSE d[x]]

\* the generator's constructor for the class new_audio selected: the record
\* carries the attributes and a type field naming the class
Generate(cls, attrs) == Put(attrs, "type", Capitalize(cls))

\* the (type, _id) pairs of a collection
Keys(st) == {<<d["type"], d["_id"]>> : d \in st}

\* the documents a filter {'type': t, '_id': i} selects
Matching(st, t, i) == {d \in st : d["type"] = t /\ d["_id"] = i}

\* the documents a filter {'type': t} selects
MatchingType(st, t) == {d \in st : d["type"] = t}

\* collection.find_one(filter)
FindOne(st, t, i) ==
    IF Matching(st, t, i) = {} THEN Null ELSE CHOOSE d \in Matching(st, t, i) : TRUE

\* find_one_and_delete matching on _id alone
FindOneAndDeleteById(st, t, i) ==
    LET S == {d \in st : d["_id"] = i}
        d == IF S = {} THEN Null ELSE CHOOSE x \in S : TRUE
    IN  [doc |-> d, store |-> IF d = Null THEN st ELSE st \ {d}]

\* find_one_and_delete removing every document of the type (delete_many)
FindOneAndDeleteMany(st, t, i) ==
    LET d == FindOne(st, t, i)
    IN  [doc |-> d, store |-> IF d = Null THEN st ELSE st \ MatchingType(st, t)]

\* collection.find_one_and_delete(filter): the removed document (or None) and
\* the collection afterwards
FindOneAndDelete(st, t, i) ==
    LET d == FindOne(st, t, i)
    IN  [doc |-> d, store |-> IF d = Null THEN st ELSE st \ {d}]

\* find_one_and_replace merging the replacement into the document (a $set update)
FindOneAndMerge(st, t, i, new) ==
    LET d == FindOne(st, t, i)
        merged == [f \in DOMAIN d \cup DOMAIN new |-> IF f \in DOMAIN new THEN new[f] ELSE d[f]]
    IN  [doc |-> d, store |-> IF d = Null THEN st ELSE (st \ {d}) \cup {merged}]

\* find_one_and_replace with upsert=True: inserts the replacement when the
\* filter selects nothing
FindOneAndReplaceUpsert(st, t, i, new) ==
    LET d == FindOne(st, t, i)
    IN  [doc |-> d, store |-> (st \ {d}) \cup {new}]

\* collection.find_one_and_replace(filter, replacement): the document before
\* the replacement (or None: no upsert) and the collection afterwards
FindOneAndReplace(st, t, i, new) ==
    LET d == FindOne(st, t, i)
    IN  [doc |-> d, store |-> IF d = Null THEN st ELSE (st \ {d}) \cup {new}]

\* the cursor of collection.find(filter) read into a list, in _id order
RECURSIVE ToList(_)
ToList(S) ==
    IF S = {} THEN <<>>
    ELSE LET d == CHOOSE x \in S : \A y \in S : x["_id"] <= y["_id"]
         IN  <<d>> \o ToList(S \ {d})


\* find with an empty filter: every document of the collection
FindAll(st, t) == ToList(st)

Find(st, t) == ToList(MatchingType(st, t))

\* identifiers the store can assign to a document inserted without one
FreshIds(st) == Ids \ {d["_id"] : d \in st}

\* collection.insert_one(doc): the store assigns the _id
InsertOne(st, doc, id) == st \cup {Put(doc, "_id", id)}

\* the collections the server can find at start-up: documents built by the
\* generator, identifiers unique
Records == {Generate(c, a) : c \in SupportedList, a \in Attributes}

Stores ==
    { {Put(f[i], "_id", i) : i \in {j \in Ids : f[j] # Null}} : f \in [Ids -> Records \cup {Null}] }

(***************************************************************************)
(* Python helpers                                                          *)
(***************************************************************************)
\* ReadKeys without the second subscript
ReadKeysTypeOnly(body) ==
    IF ~body.obj THEN "TypeError"
    ELSE IF "audioFileType" \notin body.has THEN "KeyError"
    ELSE "ok"

\* the try block reading data['audioFileType'] and data['audioFileMetadata']:
\* subscripting a value that is no dict raises TypeError, a missing key
\* raises KeyError
ReadKeys(body) ==
    IF ~body.obj THEN "TypeError"
    ELSE IF "audioFileType" \notin body.has THEN "KeyError"
    ELSE IF "audioFileMetadata" \notin body.has THEN "KeyError"
    ELSE "ok"

\* isinstance(*args): a call without the class argument raises TypeError
IsInstance(args) ==
    IF Len(args) # 2 THEN [raises |-> TRUE, val |-> FALSE]
    ELSE [raises |-> FALSE, val |-> args[1].k = args[2]]

\* {'status': .., 'message': .., ...}: the envelope and the fields the
\* handlers add to it
Envelope(status, message, detail) ==
    [kind |-> "envelope", status |-> status, message |-> message, detail |-> detail,
     document |-> NoId, documents |-> <<>>, matches |-> -1, pre |-> Null, post |-> Null]

generate_400_response(error) == Envelope(400, "Bad Request", error)

generate_500_response(error) == Envelope(500, "Internal Server Error", error)

\* an exception that leaves the handler
Unhandled(exc) ==
    [kind |-> "exception", status |-> 0, message |-> exc, detail |-> "",
     document |-> NoId, documents |-> <<>>, matches |-> -1, pre |-> Null, post |-> Null]

NoResp ==
    [kind |-> "none", status |-> 0, message |-> "", detail |-> "",
     document |-> NoId, documents |-> <<>>, matches |-> -1, pre |-> Null, post |-> Null]

\* what the generator's constructor can do
GenOutcomes == {"ok", "MetadataValueError", "MetadataGenerationError"}

\* Song(audiometadata) / Podcast(..) / Audiobook(..)
Construct(cls, attrs, gen) ==
    [called |-> TRUE, out |-> gen, file |-> IF gen = "ok" THEN Generate(cls, attrs) ELSE Null]



\* new_audio comparing the type as given, without lower()
new_audio_exact(audiotype, attrs, gen) ==
    IF audiotype = song THEN Construct(song, attrs, gen)
    ELSE IF audiotype = podcast THEN Construct(podcast, attrs, gen)
    ELSE IF audiotype = audiobook THEN Construct(audiobook, attrs, gen)
    ELSE [called |-> FALSE, out |-> "ok", file |-> Null]

\* new_audio raising MetadataValueError for either failure of the constructor
new_audio_merged(audiotype, attrs, gen) ==
    LET t == Lower(audiotype)
        g == IF gen = "ok" THEN "ok" ELSE "MetadataValueError"
    IN  IF t = song THEN Construct(song, attrs, g)
        ELSE IF t = podcast THEN Construct(podcast, attrs, g)
        ELSE IF t = audiobook THEN Construct(audiobook, attrs, g)
        ELSE [called |-> FALSE, out |-> "ok", file |-> Null]

\* new_audio: the file built for the type, None for an unknown type; the
\* constructor's two exceptions are raised again
new_audio(audiotype, attrs, gen) ==
    LET t == Lower(audiotype)
    IN  IF t = song THEN Construct(song, attrs, gen)
        ELSE IF t = podcast THEN Construct(podcast, attrs, gen)
        ELSE IF t = audiobook THEN Construct(audiobook, attrs, gen)
        ELSE [called |-> FALSE, out |-> "ok", file |-> Null]

\* the path-type check of Delete.get, Update.post and Get.get
Supported(audiotype) == Lower(audiotype) \in SupportedList

(***************************************************************************)
(* The handlers.  A run is the response, the collection afterwards and the *)
(* calls made to the generator and to the store, in order.                 *)
(***************************************************************************)
Run(r, st, calls) == [resp |-> r, store |-> st, calls |-> calls]

Call(name, out) == [call |-> name, out |-> out]

\* what insert_one can do: raise, or insert under a fresh _id with or without
\* the acknowledgement
InsertOutcomes(st) ==
    {[out |-> "fault", id |-> NoId]}
    \cup {[out |-> o, id |-> i] : o \in {"ack", "unack"}, i \in FreshIds(st)}

\* Create.post
CreatePost(body, st, gen, ins) ==
    LET keys == ReadKeys(body)
        audiotype == Capitalize(body.type.s)
        built == new_audio(audiotype, body.meta.m, gen)
        made == IF built.called THEN <<Call("generator", gen)>> ELSE <<>>
    IN  IF keys = "TypeError" THEN Run(Unhandled("TypeError"), st, <<>>)
        ELSE IF keys = "KeyError"
        THEN Run(generate_400_response("is required"), st, <<>>)
        ELSE IF IsInstance(<<body.type>>).raises THEN Run(Unhandled("TypeError"), st, <<>>)
        ELSE IF ~IsInstance(<<body.type>>).val
        THEN Run(generate_400_response("'audioFileType' must be an string"), st, <<>>)
        ELSE IF IsInstance(<<body.meta>>).raises THEN Run(Unhandled("TypeError"), st, <<>>)
        ELSE IF ~IsInstance(<<body.meta>>).val
        THEN Run(generate_400_response("'audioFileMetadata' must be an dict"), st, <<>>)
        ELSE IF built.out = "MetadataValueError"
        THEN Run(generate_400_response("MetadataValueError"), st, made)
        ELSE IF built.out = "MetadataGenerationError"
        THEN Run(generate_500_response("metadata generation"), st, made)
        ELSE IF built.file = Null
        THEN Run(generate_400_response("is not supported"), st, made)
        ELSE IF ins.out = "fault"
        THEN Run(Unhandled("PyMongoError"), st, made \o <<Call("insert_one", "fault")>>)
        ELSE IF ins.out = "unack"
        THEN Run(generate_500_response("database insertion failed"),
                 InsertOne(st, built.file, ins.id),
                 made \o <<Call("insert_one", "unack")>>)
        ELSE Run([Envelope(200, "Creation Completed", "has been created")
                      EXCEPT !.document = ins.id],
                 InsertOne(st, built.file, ins.id),
                 made \o <<Call("insert_one", "ack")>>)

\* Delete.get
DeleteGet(tok, id, st, fault) ==
    LET audiotype == Capitalize(tok)
        r == FindOneAndDelete(st, audiotype, id)
    IN  IF ~Supported(audiotype)
        THEN Run(generate_400_response("is not supported"), st, <<>>)
        ELSE IF fault
        THEN Run(generate_500_response("database query and delete failed"), st,
                 <<Call("find_one_and_delete", "fault")>>)
        ELSE IF r.doc = Null
        THEN Run(Envelope(200, "Delete Completed", "No document deleted"), r.store,
                 <<Call("find_one_and_delete", "ok")>>)
        ELSE Run([Envelope(200, "Delete Completed", "file with ID")
                      EXCEPT !.document = r.doc["_id"]],
                 r.store, <<Call("find_one_and_delete", "ok")>>)


\* Get.get letting the store's exception out
GetGetUncaught(tok, id, st, fault) ==
    LET audiotype == Capitalize(tok)
        one == FindOne(st, audiotype, id)
        truthy == id # NoId /\ id # 0
        result == IF truthy
                  THEN (IF one # Null THEN <<one>> ELSE <<>>)
                  ELSE Find(st, audiotype)
        name == IF truthy THEN "find_one" ELSE "find"
    IN  IF ~Supported(audiotype)
        THEN Run(generate_400_response("is not supported"), st, <<>>)
        ELSE IF fault
        THEN Run(Unhandled("PyMongoError"), st, <<Call(name, "fault")>>)
        ELSE Run([Envelope(200, "Get Complete", "result(s) found")
                      EXCEPT !.documents = result, !.matches = Len(result)],
                 st, <<Call(name, "ok")>>)

\* the truth value of audioID in 'if audioID:' (None and 0 are false)
Truthy(id) == id # NoId /\ id # 0

\* Get.get
GetGet(tok, id, st, fault) ==
    LET audiotype == Capitalize(tok)
        one == FindOne(st, audiotype, id)
        result == IF Truthy(id)
                  THEN (IF one # Null THEN <<one>> ELSE <<>>)
                  ELSE Find(st, audiotype)
        name == IF Truthy(id) THEN "find_one" ELSE "find"
    IN  IF ~Supported(audiotype)
        THEN Run(generate_400_response("is not supported"), st, <<>>)
        ELSE IF fault
        THEN Run(generate_500_response("database query failed"), st, <<Call(name, "fault")>>)
        ELSE Run([Envelope(200, "Get Complete", "result(s) found")
                      EXCEPT !.documents = result, !.matches = Len(result)],
                 st, <<Call(name, "ok")>>)

\* Update.post up to the type comparison (lines 120-146): the response that
\* ends the request there, NoResp when the request goes on.  The KeyError
\* handler calls generate_400_response() without its argument, which raises
\* TypeError inside the handler
UpdateValidate(tok, body) ==
    LET audiotype == Capitalize(tok)
        keys == ReadKeys(body)
    IN  IF ~Supported(audiotype) THEN generate_400_response("is not supported")
        ELSE IF keys = "TypeError" THEN Unhandled("TypeError")
        ELSE IF keys = "KeyError" THEN Unhandled("TypeError")
        ELSE IF IsInstance(<<body.type, "str">>).raises THEN Unhandled("TypeError")
        ELSE IF ~IsInstance(<<body.type, "str">>).val
        THEN generate_400_response("'audioFileType' must be an str")
        ELSE IF IsInstance(<<body.meta, "map">>).raises THEN Unhandled("TypeError")
        ELSE IF ~IsInstance(<<body.meta, "map">>).val
        THEN generate_400_response("'audioFileMetadata' must be a dict")
        ELSE IF Capitalize(body.type.s) # audiotype
        THEN generate_400_response("'audioFileType' must match endpoint")
        ELSE NoResp

\* the find_one step reporting a missing document as a server error
UpdateFind500(tok, id, st, fault) ==
    LET old_doc == FindOne(st, Capitalize(tok), id)
    IN  IF fault \/ old_doc = Null
        THEN [resp |-> generate_500_response("database query failed"), old_doc |-> Null,
              calls |-> <<Call("find_one", IF fault THEN "fault" ELSE "ok")>>]
        ELSE [resp |-> NoResp, old_doc |-> old_doc, calls |-> <<Call("find_one", "ok")>>]

\* the find_one step calling find_one a second time when the first call raised
UpdateFindRetry(tok, id, st, fault) ==
    LET old_doc == FindOne(st, Capitalize(tok), id)
        made == IF fault THEN <<Call("find_one", "fault"), Call("find_one", "ok")>>
                ELSE <<Call("find_one", "ok")>>
    IN  IF old_doc = Null
        THEN [resp |-> generate_400_response("No document found for ID"), old_doc |-> Null,
              calls |-> made]
        ELSE [resp |-> NoResp, old_doc |-> old_doc, calls |-> made]

\* Update.post, the find_one step (lines 148-158): the response that ends the
\* request, NoResp when old_doc was found
UpdateFind(tok, id, st, fault) ==
    LET old_doc == FindOne(st, Capitalize(tok), id)
    IN  IF fault
        THEN [resp |-> generate_500_response("database query failed"), old_doc |-> Null,
              calls |-> <<Call("find_one", "fault")>>]
        ELSE IF old_doc = Null
        THEN [resp |-> generate_400_response("No document found for ID"), old_doc |-> Null,
              calls |-> <<Call("find_one", "ok")>>]
        ELSE [resp |-> NoResp, old_doc |-> old_doc, calls |-> <<Call("find_one", "ok")>>]

\* new_document = new_audiofile.metadata; new_document['_id'] = old_doc['_id']
NewDocument(file, old_doc) == Put(file, "_id", old_doc["_id"])


\* Update.post reporting the document find_one located as pre-update
UpdateReplaceStalePre(tok, id, attrs, old_doc, st, gen, fault) ==
    LET audiotype == Capitalize(tok)
        built == new_audio(audiotype, attrs, gen)
        made == IF built.called THEN <<Call("generator", gen)>> ELSE <<>>
        new_document == NewDocument(built.file, old_doc)
        r == FindOneAndReplace(st, audiotype, id, new_document)
    IN  IF built.out = "MetadataValueError"
        THEN Run(generate_400_response("MetadataValueError"), st, made)
        ELSE IF built.out = "MetadataGenerationError"
        THEN Run(generate_500_response("metadata generation"), st, made)
        ELSE IF built.file = Null
        THEN Run(generate_400_response("is not supported"), st, made)
        ELSE IF fault
        THEN Run(generate_500_response("database query and replace failed"), st,
                 made \o <<Call("find_one_and_replace", "fault")>>)
        ELSE Run([Envelope(200, "Update Complete", "has been updated")
                      EXCEPT !.pre = old_doc, !.post = new_document, !.document = id],
                 r.store, made \o <<Call("find_one_and_replace", "ok")>>)

\* Update.post from new_audio to the response (lines 160-196)
UpdateReplace(tok, id, attrs, old_doc, st, gen, fault) ==
    LET audiotype == Capitalize(tok)
        built == new_audio(audiotype, attrs, gen)
        made == IF built.called THEN <<Call("generator", gen)>> ELSE <<>>
        new_document == NewDocument(built.file, old_doc)
        r == FindOneAndReplace(st, audiotype, id, new_document)
    IN  IF built.out = "MetadataValueError"
        THEN Run(generate_400_response("MetadataValueError"), st, made)
        ELSE IF built.out = "MetadataGenerationError"
        THEN Run(generate_500_response("metadata generation"), st, made)
        ELSE IF built.file = Null
        THEN Run(generate_400_response("is not supported"), st, made)
        ELSE IF fault
        THEN Run(generate_500_response("database query and replace failed"), st,
                 made \o <<Call("find_one_and_replace", "fault")>>)
        ELSE Run([Envelope(200, "Update Complete", "has been updated")
                      EXCEPT !.pre = r.doc, !.post = new_document, !.document = id],
                 r.store, made \o <<Call("find_one_and_replace", "ok")>>)

(***************************************************************************)
(* The server: each worker serves one request at a time.  req is the       *)
(* request a worker is serving or has served, resp its response, loc the   *)
(* locals Update.post keeps between its two store calls, hist the record   *)
(* of the request: its calls and the collection when the request began     *)
(* (start) and before and after its last step.                             *)
(***************************************************************************)
NoBody == [obj |-> FALSE, has |-> {}, type |-> JNum, meta |-> JNum]

NoReq == [op |-> "none", type |-> <<>>, id |-> NoId, body |-> NoBody]

NoLoc == [old_doc |-> Null, interfered |-> FALSE]

NoHist == [calls |-> <<>>, start |-> {}, before |-> {}, after |-> {}]

Init ==
    /\ store \in Stores
    /\ pc = [w \in Workers |-> "idle"]
    /\ req = [w \in Workers |-> NoReq]
    /\ loc = [w \in Workers |-> NoLoc]
    /\ resp = [w \in Workers |-> NoResp]
    /\ hist = [w \in Workers |-> NoHist]

\* a worker takes a request when it is idle
Free(w) == pc[w] = "idle"

\* the locals of the other workers after w changed the collection from st to
\* st2: an Update between its two store calls whose document changed has been
\* interfered with
Disturb(w, st, st2) ==
    [v \in Workers |->
        IF /\ v # w
           /\ pc[v] = "located"
           /\ Matching(st, Capitalize(req[v].type), req[v].id)
                  # Matching(st2, Capitalize(req[v].type), req[v].id)
        THEN [loc[v] EXCEPT !.interfered = TRUE]
        ELSE loc[v]]

\* worker w serves a request in one step and responds
Finish(w, r, run) ==
    /\ store' = run.store
    /\ pc' = [pc EXCEPT ![w] = "done"]
    /\ req' = [req EXCEPT ![w] = r]
    /\ resp' = [resp EXCEPT ![w] = run.resp]
    /\ hist' = [hist EXCEPT ![w] =
                    [calls |-> run.calls, start |-> store, before |-> store, after |-> run.store]]
    /\ loc' = [Disturb(w, store, run.store) EXCEPT ![w] = NoLoc]

\* POST /create
CreateReq(w, bodies, gens) ==
    /\ Free(w)
    /\ \E body \in bodies, gen \in gens, ins \in InsertOutcomes(store) :
          Finish(w, [op |-> "create", type |-> <<>>, id |-> NoId, body |-> body],
                 CreatePost(body, store, gen, ins))

\* GET /delete/<audiotype>/<audioID>
DeleteReq(w, toks, faults) ==
    /\ Free(w)
    /\ \E tok \in toks, id \in Ids, fault \in faults :
          Finish(w, [op |-> "delete", type |-> tok, id |-> id, body |-> NoBody],
                 DeleteGet(tok, id, store, fault))

\* GET /get/<audiotype> and GET /get/<audiotype>/<audioID>
GetReq(w, toks, faults) ==
    /\ Free(w)
    /\ \E tok \in toks, id \in Ids \cup {NoId}, fault \in faults :
          Finish(w, [op |-> "get", type |-> tok, id |-> id, body |-> NoBody],
                 GetGet(tok, id, store, fault))

\* POST /update/<audiotype>/<audioID>, up to and including find_one
UpdateLocate(w, toks, bodies, faults) ==
    /\ Free(w)
    /\ \E tok \in toks, id \in Ids, body \in bodies, fault \in faults :
          LET r == [op |-> "update", type |-> tok, id |-> id, body |-> body]
              early == UpdateValidate(tok, body)
              found == UpdateFind(tok, id, store, fault)
          IN  IF early # NoResp THEN Finish(w, r, Run(early, store, <<>>))
              ELSE IF found.resp # NoResp THEN Finish(w, r, Run(found.resp, store, found.calls))
              ELSE /\ pc' = [pc EXCEPT ![w] = "located"]
                   /\ req' = [req EXCEPT ![w] = r]
                   /\ loc' = [loc EXCEPT ![w] = [old_doc |-> found.old_doc, interfered |-> FALSE]]
                   /\ resp' = [resp EXCEPT ![w] = NoResp]
                   /\ hist' = [hist EXCEPT ![w] =
                                   [calls |-> found.calls, start |-> store,
                                    before |-> store, after |-> store]]
                   /\ UNCHANGED store

\* POST /update/..., from new_audio to the response
UpdateFinish(w, gens, faults) ==
    /\ pc[w] = "located"
    /\ \E gen \in gens, fault \in faults :
          LET run == UpdateReplace(req[w].type, req[w].id, req[w].body.meta.m,
                                   loc[w].old_doc, store, gen, fault)
          IN  /\ store' = run.store
              /\ pc' = [pc EXCEPT ![w] = "done"]
              /\ resp' = [resp EXCEPT ![w] = run.resp]
              /\ hist' = [hist EXCEPT ![w] =
                              [calls |-> hist[w].calls \o run.calls, start |-> hist[w].start,
                               before |-> store, after |-> run.store]]
              /\ loc' = Disturb(w, store, run.store)
              /\ UNCHANGED req

\* the response has been sent: the worker is ready for its next request
Respond(w) ==
    /\ pc[w] = "done"
    /\ pc' = [pc EXCEPT ![w] = "idle"]
    /\ req' = [req EXCEPT ![w] = NoReq]
    /\ resp' = [resp EXCEPT ![w] = NoResp]
    /\ hist' = [hist EXCEPT ![w] = NoHist]
    /\ loc' = [loc EXCEPT ![w] = NoLoc]
    /\ UNCHANGED store

\* requests served one at a time: any body, any type token, any outcome of
\* the generator and of the store
Next ==
    \E w \in SeqWorkers :
        \/ CreateReq(w, Bodies, GenOutcomes)
        \/ DeleteReq(w, Tokens, BOOLEAN)
        \/ GetReq(w, Tokens, BOOLEAN)
        \/ UpdateLocate(w, Tokens, Bodies, BOOLEAN)
        \/ UpdateFinish(w, GenOutcomes, BOOLEAN)
        \/ Respond(w)

Spec == Init /\ [][Next]_vars

\* the inputs of the concurrent specification: well-formed bodies of one
\* supported type, a generator and a store that answer
ConcTokens == {<<"S", "O", "N", "G">>}

ConcBodies ==
    { [obj |-> TRUE, has |-> {"audioFileType", "audioFileMetadata"},
       type |-> JStr(t), meta |-> JMap(a)] : t \in ConcTokens, a \in Attributes }

\* one request per worker, served concurrently and interleaved at the store
\* calls
NextConc ==
    \E w \in Workers :
        \/ CreateReq(w, ConcBodies, {"ok"})
        \/ DeleteReq(w, ConcTokens, {FALSE})
        \/ GetReq(w, ConcTokens, {FALSE})
        \/ UpdateLocate(w, ConcTokens, ConcBodies, {FALSE})
        \/ UpdateFinish(w, {"ok"}, {FALSE})

SpecConc == Init /\ [][NextConc]_vars


\* every spelling of a word in upper and lower case
RECURSIVE CaseVariants(_)
CaseVariants(word) ==
    IF word = <<>> THEN {<<>>}
    ELSE {<<c>> \o rest : c \in {Head(word), UpperCh(Head(word))},
                          rest \in CaseVariants(Tail(word))}

video == <<"v", "i", "d", "e", "o">>

\* the type tokens given to the resolver: the three supported words and
\* "video" in every letter case, and words that differ from a supported one
\* by a letter
ResolveTokens ==
    CaseVariants(song) \cup CaseVariants(podcast) \cup CaseVariants(audiobook)
    \cup CaseVariants(video)
    \cup { <<"s", "o", "n">>, <<"s", "o", "n", "g", "s">>, <<"S", "o", "n", "g", "s">>,
           <<"p", "o", "d", "c", "a", "s">>, <<"b", "o", "o", "k">>,
           <<"a", "u", "d", "i", "o">>, <<"g", "n", "o", "s">> }

InitResolve == Init /\ store = {}

\* new_audio applied to a token as the client sent it, and the path-type
\* check of a handler (Delete.get) applied to the same token
Resolve(w) ==
    /\ Free(w)
    /\ \E tok \in ResolveTokens, attrs \in Attributes :
          LET built == new_audio(tok, attrs, "ok")
              run == DeleteGet(tok, 0, store, FALSE)
          IN  /\ pc' = [pc EXCEPT ![w] = "done"]
              /\ req' = [req EXCEPT ![w] =
                             [op |-> "resolve", type |-> tok, id |-> 0,
                              body |-> [obj |-> TRUE, has |-> {"audioFileType", "audioFileMetadata"},
                                        type |-> JStr(tok), meta |-> JMap(attrs)]]]
              /\ loc' = [loc EXCEPT ![w] = [old_doc |-> built.file, interfered |-> FALSE]]
              /\ resp' = [resp EXCEPT ![w] = run.resp]
              /\ hist' = [hist EXCEPT ![w] =
                              [calls |-> IF built.called THEN <<Call("generator", "ok")>> ELSE <<>>,
                               start |-> store, before |-> store, after |-> run.store]]
              /\ store' = run.store

NextResolve == \E w \in SeqWorkers : Resolve(w)

\* the type resolution alone, on every token of ResolveTokens
SpecResolve == InitResolve /\ [][NextResolve]_vars

(***************************************************************************)
(* Properties                                                              *)
(***************************************************************************)
Done(w, op) == pc[w] = "done" /\ req[w].op = op

BothKeys == {"audioFileType", "audioFileMetadata"}

\* a JSON object with both keys, a string as type and a mapping as metadata
WellFormed(body) ==
    body.obj /\ body.has = BothKeys /\ body.type.k = "str" /\ body.meta.k = "map"

\* none of the calls a request made failed
AllOk(calls) == \A n \in 1..Len(calls) : calls[n].out \in {"ok", "ack"}

CallNames(calls) == [n \in 1..Len(calls) |-> calls[n].call]

\* the record a Create or an Update of these inputs is to store under id
Expected(tok, attrs, id) ==
    [f \in DOMAIN attrs \cup {"type", "_id"} |->
        IF f = "type" THEN Capitalize(tok) ELSE IF f = "_id" THEN id ELSE attrs[f]]

\* C1: a Create whose body has both keys, a supported type string and a
\* mapping, none of whose calls failed, answers 200 with the new identifier
\* and leaves the collection with exactly one more document, the built record
C1_CreateInserts ==
    \A w \in Workers :
        ( /\ Done(w, "create")
          /\ WellFormed(req[w].body)
          /\ Supported(req[w].body.type.s)
          /\ AllOk(hist[w].calls) )
        => /\ resp[w].kind = "envelope"
           /\ resp[w].status = 200
           /\ resp[w].document \in Ids
           /\ hist[w].after = hist[w].before
                  \cup {Expected(req[w].body.type.s, req[w].body.meta.m, resp[w].document)}
           /\ Cardinality(hist[w].after) = Cardinality(hist[w].before) + 1

C3_CreateMissingKey ==
    \A w \in Workers :
        ( /\ Done(w, "create")
          /\ req[w].body.obj
          /\ req[w].body.has # BothKeys )
        => /\ resp[w].kind = "envelope"
           /\ resp[w].status = 400
           /\ hist[w].calls = <<>>
           /\ hist[w].after = hist[w].before

C3_Witness ==
    \E w \in Workers :
        /\ Done(w, "create")
        /\ req[w].body.obj
        /\ req[w].body.has = {"audioFileType"}
        /\ req[w].body.type.k = "str"
        /\ resp[w].status = 400
        /\ hist[w].before # {}

\* C4: a Create whose type is a string naming no supported type, with a
\* mapping as metadata, answers 400 and calls neither the generator nor the
\* store
C4_CreateUnsupported ==
    \A w \in Workers :
        ( /\ Done(w, "create")
          /\ WellFormed(req[w].body)
          /\ ~Supported(req[w].body.type.s) )
        => /\ resp[w].kind = "envelope"
           /\ resp[w].status = 400
           /\ hist[w].calls = <<>>
           /\ hist[w].after = hist[w].before

\* the canonical type and the filter of the request worker w serves
PathType(w) == Capitalize(req[w].type)

Target(w, st) == Matching(st, PathType(w), req[w].id)

\* an Update whose inputs pass every check before find_one
ValidUpdate(w) == UpdateValidate(req[w].type, req[w].body) = NoResp

\* C5: an Update of an existing document that nothing interfered with, with
\* a valid body and no failing call, answers 200; the collection then holds
\* under {type, id} exactly the built record with the original _id, every
\* other document is as before, pre-update is the document stored before the
\* request and post-update the document stored after it
C5_UpdateReplaces ==
    \A w \in Workers :
        ( /\ Done(w, "update")
          /\ ValidUpdate(w)
          /\ Target(w, hist[w].start) # {}
          /\ ~loc[w].interfered
          /\ AllOk(hist[w].calls) )
        => LET new == Expected(req[w].type, req[w].body.meta.m, req[w].id)
           IN  /\ resp[w].kind = "envelope"
               /\ resp[w].status = 200
               /\ Target(w, hist[w].after) = {new}
               /\ hist[w].after = (hist[w].before \ Target(w, hist[w].before)) \cup {new}
               /\ Target(w, hist[w].start) = {resp[w].pre}
               /\ Target(w, hist[w].before) = {resp[w].pre}
               /\ resp[w].post = new
               /\ resp[w].post["_id"] = resp[w].pre["_id"]
               /\ resp[w].document = req[w].id
               /\ CallNames(hist[w].calls) = <<"find_one", "generator", "find_one_and_replace">>

\* an Update that replaced a document having a field the new record lacks,
\* next to another document
C5_Witness ==
    \E w \in Workers :
        /\ Done(w, "update")
        /\ resp[w].status = 200
        /\ resp[w].pre # Null
        /\ "host" \in DOMAIN resp[w].pre
        /\ "host" \notin DOMAIN resp[w].post
        /\ Cardinality(hist[w].after) > 1

\* C6: an Update whose body type, capitalized, differs from the capitalized
\* path type answers 400 without any store or generator call and leaves the
\* collection as it was
C6_UpdateTypeMismatch ==
    \A w \in Workers :
        ( /\ Done(w, "update")
          /\ req[w].body.obj
          /\ "audioFileType" \in req[w].body.has
          /\ req[w].body.type.k = "str"
          /\ Capitalize(req[w].body.type.s) # PathType(w) )
        => /\ resp[w].kind = "envelope"
           /\ resp[w].status = 400
           /\ hist[w].calls = <<>>
           /\ hist[w].after = hist[w].start

\* C7: an Update on a supported path type whose JSON object lacks a key, or
\* has a type that is no string or a metadata that is no mapping, answers 400
\* without any store or generator call
C7_UpdateBadBody ==
    \A w \in Workers :
        ( /\ Done(w, "update")
          /\ Supported(req[w].type)
          /\ req[w].body.obj
          /\ ~WellFormed(req[w].body) )
        => /\ resp[w].kind = "envelope"
           /\ resp[w].status = 400
           /\ hist[w].calls = <<>>
           /\ hist[w].after = hist[w].start

\* C8: an Update with valid, consistent inputs whose {type, id} matches no
\* document (find_one answering) ends with 400 "No document found", never
\* 500; the generator is not called, no replace is attempted, and the
\* collection is as it was
C8_UpdateNotFound ==
    \A w \in Workers :
        ( /\ Done(w, "update")
          /\ ValidUpdate(w)
          /\ Target(w, hist[w].start) = {}
          /\ AllOk(hist[w].calls) )
        => /\ resp[w].kind = "envelope"
           /\ resp[w].status = 400
           /\ resp[w].detail = "No document found for ID"
           /\ CallNames(hist[w].calls) = <<"find_one">>
           /\ hist[w].after = hist[w].start
           /\ Keys(hist[w].after) = Keys(hist[w].start)

\* an Update of an identifier stored under another type only
C8_Witness ==
    \E w \in Workers :
        /\ Done(w, "update")
        /\ ValidUpdate(w)
        /\ Target(w, hist[w].start) = {}
        /\ \E d \in hist[w].start : d["_id"] = req[w].id
        /\ resp[w].status = 400

\* C9: a Delete of a supported-type pair matching no document (the store
\* answering) returns 200 "No document deleted" and changes nothing; and
\* after any answered Delete the same Delete again returns 200 and leaves
\* the collection as the first one left it
C9_DeleteIdempotent ==
    \A w \in Workers :
        ( /\ Done(w, "delete")
          /\ Supported(req[w].type)
          /\ AllOk(hist[w].calls) )
        => LET again == DeleteGet(req[w].type, req[w].id, hist[w].after, FALSE)
           IN  /\ Target(w, hist[w].before) = {}
                  => /\ resp[w].status = 200
                     /\ resp[w].detail = "No document deleted"
                     /\ resp[w].document = NoId
                     /\ hist[w].after = hist[w].before
               /\ resp[w].status = 200
               /\ again.resp.status = 200
               /\ again.resp.detail = "No document deleted"
               /\ again.store = hist[w].after

\* a Delete of an identifier stored under another type only
C9_Witness ==
    \E w \in Workers :
        /\ Done(w, "delete")
        /\ Supported(req[w].type)
        /\ Target(w, hist[w].before) = {}
        /\ \E d \in hist[w].before : d["_id"] = req[w].id
        /\ resp[w].detail = "No document deleted"

\* C10: a Delete of a supported-type pair matching a document (the store
\* answering) removes exactly that document in its one store call, returns
\* 200 with the removed document's id, and leaves every other document
C10_DeleteRemovesOne ==
    \A w \in Workers :
        ( /\ Done(w, "delete")
          /\ Supported(req[w].type)
          /\ Target(w, hist[w].before) # {}
          /\ AllOk(hist[w].calls) )
        => /\ resp[w].status = 200
           /\ resp[w].document = req[w].id
           /\ Cardinality(Target(w, hist[w].before)) = 1
           /\ hist[w].after = hist[w].before \ Target(w, hist[w].before)
           /\ Cardinality(hist[w].after) = Cardinality(hist[w].before) - 1
           /\ CallNames(hist[w].calls) = <<"find_one_and_delete">>

\* a Delete that removed one of two documents of the same type
C10_Witness ==
    \E w \in Workers :
        /\ Done(w, "delete")
        /\ resp[w].document = req[w].id
        /\ \E d \in hist[w].after : d["type"] = PathType(w)
        /\ Cardinality(hist[w].before) = Cardinality(hist[w].after) + 1


\* the elements of a list
Range(s) == {s[n] : n \in 1..Len(s)}

\* C11: a Read with a supported type and no identifier (the store answering)
\* returns 200 with exactly the stored documents of that type, each once,
\* and matches equal to the length of that list; with no document of the
\* type it returns 200, an empty list and matches 0.  The collection is
\* unchanged
C11_ReadAllOfType ==
    \A w \in Workers :
        ( /\ Done(w, "get")
          /\ Supported(req[w].type)
          /\ req[w].id = NoId
          /\ AllOk(hist[w].calls) )
        => LET ofType == {d \in hist[w].before : d["type"] = Capitalize(req[w].type)}
           IN  /\ resp[w].kind = "envelope"
               /\ resp[w].status = 200
               /\ Range(resp[w].documents) = ofType
               /\ Len(resp[w].documents) = Cardinality(ofType)
               /\ resp[w].matches = Len(resp[w].documents)
               /\ ofType = {} => resp[w].documents = <<>> /\ resp[w].matches = 0
               /\ hist[w].after = hist[w].before

\* a Read without identifier of a type that one of two stored documents has
C11_Witness ==
    \E w \in Workers :
        /\ Done(w, "get")
        /\ req[w].id = NoId
        /\ resp[w].status = 200
        /\ resp[w].matches = 1
        /\ Cardinality(hist[w].before) = 2

\* C12: a Read given an identifier (0 included) and a supported type (the
\* store answering) returns a list of size 0 or 1 that holds only the
\* document whose type and _id are the requested pair
C12_ReadOnePair ==
    \A w \in Workers :
        ( /\ Done(w, "get")
          /\ Supported(req[w].type)
          /\ req[w].id \in Ids
          /\ AllOk(hist[w].calls) )
        => /\ Len(resp[w].documents) <= 1
           /\ \A d \in Range(resp[w].documents) :
                  d["type"] = Capitalize(req[w].type) /\ d["_id"] = req[w].id

\* C13: every request ends with a response envelope whose status is 200, 400
\* or 500; no exception leaves a handler
C13_AlwaysEnvelope ==
    \A w \in Workers :
        pc[w] = "done"
        => /\ resp[w].kind = "envelope"
           /\ resp[w].status \in {200, 400, 500}


StoreCallNames == {"insert_one", "find_one", "find", "find_one_and_delete", "find_one_and_replace"}

\* the store calls among the calls of a request
RECURSIVE StoreCalls(_)
StoreCalls(calls) ==
    IF calls = <<>> THEN <<>>
    ELSE (IF calls[1].call \in StoreCallNames THEN <<calls[1]>> ELSE <<>>)
             \o StoreCalls(Tail(calls))

\* the error text each handler gives for a store call that raised
FaultDetail(name) ==
    IF name \in {"find_one", "find"} THEN "database query failed"
    ELSE IF name = "find_one_and_delete" THEN "database query and delete failed"
    ELSE IF name = "find_one_and_replace" THEN "database query and replace failed"
    ELSE "database insertion failed"

GenOutcome(calls) ==
    IF \E n \in 1..Len(calls) : calls[n].call = "generator"
    THEN calls[CHOOSE n \in 1..Len(calls) : calls[n].call = "generator"].out
    ELSE "none"

\* C15: in Create and in Update a MetadataValueError of the generator gives
\* a 400 response and a MetadataGenerationError a 500 response, and in both
\* cases neither insert nor replace is called and the collection is as the
\* request found it
C15_GeneratorFailures ==
    \A w \in Workers :
        (pc[w] = "done" /\ req[w].op \in {"create", "update"})
        => LET g == GenOutcome(hist[w].calls)
           IN  /\ g = "MetadataValueError"
                  => resp[w].kind = "envelope" /\ resp[w].status = 400
               /\ g = "MetadataGenerationError"
                  => resp[w].kind = "envelope" /\ resp[w].status = 500
               /\ g \in {"MetadataValueError", "MetadataGenerationError"}
                  => /\ \A n \in 1..Len(hist[w].calls) :
                            hist[w].calls[n].call \notin {"insert_one", "find_one_and_replace"}
                     /\ hist[w].after = hist[w].before
                     /\ hist[w].after = hist[w].start

\* an Update of a stored document whose generator call raised
\* MetadataGenerationError
C15_Witness ==
    \E w \in Workers :
        /\ Done(w, "update")
        /\ GenOutcome(hist[w].calls) = "MetadataGenerationError"
        /\ resp[w].status = 500
        /\ Target(w, hist[w].after) # {}


\* tok is word in some letter case
SameWord(tok, word) ==
    /\ Len(tok) = Len(word)
    /\ \A n \in 1..Len(word) : tok[n] \in {word[n], UpperCh(word[n])}

\* the canonical capitalized name of each supported word
Canonical(word) ==
    IF word = song THEN <<"S", "o", "n", "g">>
    ELSE IF word = podcast THEN <<"P", "o", "d", "c", "a", "s", "t">>
    ELSE <<"A", "u", "d", "i", "o", "b", "o", "o", "k">>

\* C16: for a token that is song, podcast or audiobook in any letter case
\* new_audio builds the file of that variant, named in canonical capitalized
\* form; for every other token it returns None without calling a
\* constructor; and the path-type checks of Delete, Update and Read accept
\* exactly the tokens new_audio resolves
C16_TypeResolution ==
    \A w \in Workers :
        Done(w, "resolve")
        => LET tok == req[w].type
               file == loc[w].old_doc
               body == req[w].body
           IN  /\ \A word \in {song, podcast, audiobook} :
                      SameWord(tok, word)
                      => /\ file # Null
                         /\ file["type"] = Canonical(word)
                         /\ file = new_audio(Capitalize(tok), body.meta.m, "ok").file
               /\ (\A word \in {song, podcast, audiobook} : ~SameWord(tok, word))
                      => /\ file = Null
                         /\ hist[w].calls = <<>>
                         /\ new_audio(Capitalize(tok), body.meta.m, "ok").file = Null
               /\ (file # Null) <=> (resp[w].status = 200)
               /\ (file = Null) <=> (resp[w].status = 400)
               /\ (file # Null) <=> (GetGet(tok, NoId, store, FALSE).resp.status = 200)
               /\ (file = Null) <=> (GetGet(tok, NoId, store, FALSE).resp.status = 400)
               /\ (file # Null) <=> (UpdateValidate(tok, body) = NoResp)
               /\ (file = Null) <=> (UpdateValidate(tok, body).status = 400)

\* the token "aUdIoBoOk" resolved to the Audiobook variant
C16_Witness ==
    \E w \in Workers :
        /\ Done(w, "resolve")
        /\ req[w].type = <<"a", "U", "d", "I", "o", "B", "o", "O", "k">>
        /\ loc[w].old_doc # Null
        /\ loc[w].old_doc["type"] = <<"A", "u", "d", "i", "o", "b", "o", "o", "k">>
        /\ resp[w].status = 200


\* C17: under every interleaving an Update that reports 200 has replaced a
\* document: pre-update is a document with the requested _id, and right
\* after the replace step the collection holds post-update under {type, id}
C17_UpdateReallyReplaced ==
    \A w \in Workers :
        (Done(w, "update") /\ resp[w].status = 200)
        => /\ resp[w].pre # Null
           /\ resp[w].pre["_id"] = req[w].id
           /\ Target(w, hist[w].after) = {resp[w].post}


\* an Update that answered 200 and whose document was there at its replace
\* step (no Delete had removed it)
Replaced(w) ==
    /\ Done(w, "update")
    /\ resp[w].status = 200
    /\ Target(w, hist[w].before) # {}

\* C18: concurrent Updates of one existing {type, id}, no Delete
\* interfering: the pre-update snapshot of each is the document its own
\* replace step overwrote, its post-update snapshot the document that step
\* stored; the snapshots form a chain (the later one's pre-update is the
\* earlier one's post-update) and the collection ends with the post-update
\* snapshot of the Update that replaced last
C18_UpdateChain ==
    /\ \A w \in Workers :
           Replaced(w)
           => /\ Target(w, hist[w].before) = {resp[w].pre}
              /\ Target(w, hist[w].after) = {resp[w].post}
              /\ hist[w].after = (hist[w].before \ {resp[w].pre}) \cup {resp[w].post}
    /\ \A a, b \in Workers :
           ( /\ a # b
             /\ Replaced(a)
             /\ Replaced(b)
             /\ PathType(a) = PathType(b)
             /\ req[a].id = req[b].id )
           => \E first, last \in {a, b} :
                  /\ first # last
                  /\ hist[last].before = hist[first].after
                  /\ resp[last].pre = resp[first].post
                  /\ Target(last, store) = {resp[last].post}

\* two Updates of one document, the second having located the document
\* before the first replaced it: its pre-update snapshot is not the document
\* it located
C18_Witness ==
    \E a, b \in Workers :
        /\ a # b
        /\ Replaced(a)
        /\ Replaced(b)
        /\ req[a].id = req[b].id
        /\ resp[b].pre = resp[a].post
        /\ resp[b].pre # loc[b].old_doc
        /\ loc[b].interfered


\* no two documents of a collection share an _id
UniqueIds(st) == \A d, e \in st : d["_id"] = e["_id"] => d = e

\* worker w answers a request in this step
Answers(w) == pc[w] # "done" /\ pc'[w] = "done"

\* this step is a Delete that removed the one pair its path names
DeleteStep(w) ==
    /\ Answers(w)
    /\ req'[w].op = "delete"
    /\ resp'[w].status = 200
    /\ <<Capitalize(req'[w].type), req'[w].id>> \in Keys(store)
    /\ Keys(store') = Keys(store) \ {<<Capitalize(req'[w].type), req'[w].id>>}

\* this step is a Create that succeeded and added one pair
CreateStep(w) ==
    /\ Answers(w)
    /\ req'[w].op = "create"
    /\ resp'[w].status = 200
    /\ \E k \in Keys(store') \ Keys(store) : Keys(store') = Keys(store) \cup {k}

\* this step, if it is the replace step of an Update, keeps every pair, and
\* the document it stored has the type and _id of the one it overwrote
UpdateStep(w) ==
    (pc[w] = "located" /\ pc'[w] = "done")
    => /\ Keys(store') = Keys(store)
       /\ (store' # store
           => /\ resp'[w].status = 200
              /\ resp'[w].pre \in store
              /\ resp'[w].post \in store'
              /\ resp'[w].post["type"] = resp'[w].pre["type"]
              /\ resp'[w].post["_id"] = resp'[w].pre["_id"])

\* C19: under every interleaving the (type, _id) pairs of the collection
\* change only by a successful Create, which adds one pair, or a matching
\* Delete, which removes one; Read and Update keep the pairs, an Update keeps
\* the type and _id of the document it replaces, and no two documents ever
\* share an _id
C19_KeysChange ==
    /\ [](UniqueIds(store))
    /\ [][ /\ (Keys(store') # Keys(store)
               => \E w \in Workers : DeleteStep(w) \/ CreateStep(w))
           /\ \A w \in Workers : UpdateStep(w)
           /\ \A w \in Workers :
                  (Answers(w) /\ req'[w].op = "get") => store' = store ]_vars

\* one request has deleted a document and an Update has replaced another
\* document by one with other content
C19_Witness ==
    \E a, b \in Workers :
        /\ Replaced(a)
        /\ resp[a].post # resp[a].pre
        /\ Done(b, "delete")
        /\ resp[b].status = 200
        /\ Keys(hist[b].after) # Keys(hist[b].before)
        /\ Keys(store) # Keys(hist[a].start)


\* the sequences of store calls each operation may make
AllowedStoreCalls(op) ==
    IF op = "create" THEN {<<>>, <<"insert_one">>}
    ELSE IF op = "get" THEN {<<>>, <<"find_one">>, <<"find">>}
    ELSE IF op = "delete" THEN {<<>>, <<"find_one_and_delete">>}
    ELSE {<<>>, <<"find_one">>, <<"find_one">> \o <<"find_one_and_replace">>}

\* a store call of the request of worker w has raised
Faulted(w) ==
    \E n \in 1..Len(hist[w].calls) :
        hist[w].calls[n].call \in StoreCallNames /\ hist[w].calls[n].out = "fault"

\* C20: no request retries or goes on after a store fault: a Create, Read or
\* Delete makes at most one store call, an Update at most find_one followed
\* by find_one_and_replace, a call that raised is the last store call of its
\* request, and a request of which a store call has raised makes no store
\* call in any later step before its response
C20_NoRetry ==
    /\ [](\A w \in Workers :
              pc[w] # "idle"
              => LET made == StoreCalls(hist[w].calls)
                 IN  /\ CallNames(made) \in AllowedStoreCalls(req[w].op)
                     /\ \A n \in 1..Len(made) : made[n].out = "fault" => n = Len(made)
                     /\ (Faulted(w) => pc[w] = "done"))
    /\ [][ \A w \in Workers :
               (pc[w] # "idle" /\ Faulted(w))
               => \/ pc'[w] = "idle"
                  \/ StoreCalls(hist'[w].calls) = StoreCalls(hist[w].calls) ]_vars

\* an Update whose find_one answered and whose find_one_and_replace raised:
\* two store calls, the second one the last, the collection as it was
C20_Witness ==
    \E w \in Workers :
        /\ Done(w, "update")
        /\ StoreCalls(hist[w].calls)
               = <<Call("find_one", "ok"), Call("find_one_and_replace", "fault")>>
        /\ resp[w].status = 500
        /\ store = hist[w].start
        /\ store # {}

====
